---- MODULE Spec2Model ----
(***************************************************************************)
(* Model of src/services/providers/helpers/giteaHelper.js: the Gitea       *)
(* OAuth2 token lifecycle (startOauth2, refreshToken, addAccount).         *)
(*                                                                         *)
(* Every async function is cut at its awaits on external promises (the     *)
(* modal, the OAuth2 popup, each HTTP request).  A continuation runs from   *)
(* the settlement of such a promise to the next external await, or to the  *)
(* settlement of the outermost call, as one atomic step: JavaScript is     *)
(* single-threaded and the promise hops in between perform no I/O.         *)
(***************************************************************************)
EXTENDS Integers, Sequences, FiniteSets, TLC

VARIABLES
  tokens,      \* store: the gitea tokens held by the token store (a set of token objects)
  now,         \* Date.now(), in milliseconds
  issued,      \* provider: number of token pairs the token endpoint has issued
  inv          \* the invocations in flight, each a frame:
               \*   op         the exported function that was called
               \*   pc         the external promise the invocation is suspended on
               \*   token      refreshToken(token): the caller's token, {} when none
               \*   args       startOauth2 parameters serverUrl, applicationId,
               \*              applicationSecret, sub
               \*   silent     startOauth2 parameter silent of the call in progress
               \*   rtArg      startOauth2 parameter refreshToken of that call
               \*   tokenBody  startOauth2 local tokenBody, {} before the exchange
               \*   username   startOauth2 local user.username, "" before the lookup
               \*   result     the settlement: [token |-> t] or [error |-> e]
               \*   log        the calls made to collaborators and the errors
               \*              thrown by startOauth2, in order

vars == <<tokens, now, issued, inv>>

(***************************************************************************)
(* Bounds of the model.                                                    *)
(***************************************************************************)
MaxIssued == 2        \* token pairs the provider issues in one behaviour
MaxTicks == 1         \* clock advances in one behaviour

Procs == {"p1", "p2"}                 \* concurrent invocations
Servers == {"https://git.example.com"}
Usernames == {"alice", "bob"}

(***************************************************************************)
(* JavaScript values.                                                      *)
(***************************************************************************)
Undefined == -1       \* undefined, for a numeric or credential field
NaN == -2             \* Number.NaN
Null == <<>>          \* sub = null

\* !x for a number-or-undefined x
Falsy(x) == x \in {Undefined, NaN, 0}

\* x > y on numbers: every comparison with NaN or undefined is false
JsGreater(x, y) == x \notin {Undefined, NaN} /\ y \notin {Undefined, NaN} /\ x > y

\* x * y and x + y on numbers, undefined converting to NaN
JsTimes(x, y) == IF x \in {Undefined, NaN} \/ y \in {Undefined, NaN} THEN NaN ELSE x * y
JsPlus(x, y) == IF x \in {Undefined, NaN} \/ y \in {Undefined, NaN} THEN NaN ELSE x + y

tokenExpirationMargin == 5 * 60 * 1000

\* `${serverUrl}/${user.username}`: a username holds no '/', so the pair is the string
MkSub(serverUrl, username) == <<serverUrl, username>>

Subs == {MkSub(s, u) : s \in Servers, u \in Usernames}

(***************************************************************************)
(* The environment: clock, provider responses, tokens of earlier sessions. *)
(***************************************************************************)
TickMs == 5 * 60 * 1000
StartTime == TickMs

\* expires_in (seconds) of a token endpoint response; Undefined when the field is missing
ExpiresInValues == {Undefined, 600}

\* the accessToken of a token object kept by a caller from an earlier session
StaleAccessToken == 0 - 3

ApplicationId == "app-id"
ApplicationSecret == "app-secret"

\* a token stored by a version that tracked no expiration
LegacyToken(sub) ==
  [accessToken |-> 0, name |-> sub[2], applicationId |-> ApplicationId,
   applicationSecret |-> ApplicationSecret, refreshToken |-> Undefined,
   expiresOn |-> Undefined, serverUrl |-> sub[1], sub |-> sub]

\* a token of an earlier session that expires at StartTime
ExpiringToken(sub) ==
  [LegacyToken(sub) EXCEPT !.refreshToken = 0, !.expiresOn = StartTime]


(***************************************************************************)
(* The token store (store/data module): its contract is taken from the     *)
(* specification, sections 3 and 6.                                        *)
(***************************************************************************)
\* store.getters['data/giteaTokensBySub'][sub]: {} when undefined
GiteaTokensBySub(toks, sub) ==
  IF \E t \in toks : t.sub = sub
  THEN {CHOOSE t \in toks : t.sub = sub}
  ELSE {}

\* store.dispatch('data/addGiteaToken', t): replaces the entry keyed by t.sub
AddGiteaToken(toks, t) == {x \in toks : x.sub /= t.sub} \cup {t}

(***************************************************************************)
(* startOauth2: the synchronous decisions.                                 *)
(***************************************************************************)
\* Date.now() + (tokenBody.expires_in * 1000)
ExpiresOn(nowv, expires_in) == JsPlus(nowv, JsTimes(expires_in, 1000))

\* SubMismatch with the consistency check left out
SubMismatchUnchecked(sub, uniqueSub) == FALSE

\* SubMismatch that compares the server part of the sub only
SubMismatchServerOnly(sub, uniqueSub) == sub /= Null /\ uniqueSub[1] /= sub[1]

\* if (sub && uniqueSub !== sub) throw
SubMismatch(sub, uniqueSub) == sub /= Null /\ uniqueSub /= sub

\* BuildToken keyed by the sub the caller expected instead of the resolved one
BuildTokenExpectedSub(a, body, username, uniqueSub, nowv) ==
  [accessToken |-> body.access_token,
   name |-> username,
   applicationId |-> a.applicationId,
   applicationSecret |-> a.applicationSecret,
   refreshToken |-> body.refresh_token,
   expiresOn |-> JsPlus(nowv, JsTimes(body.expires_in, 1000)),
   serverUrl |-> a.serverUrl,
   sub |-> a.sub]

\* BuildToken that leaves out the refresh token of the response
BuildTokenNoRefreshToken(a, body, username, uniqueSub, nowv) ==
  [accessToken |-> body.access_token,
   name |-> username,
   applicationId |-> a.applicationId,
   applicationSecret |-> a.applicationSecret,
   refreshToken |-> Undefined,
   expiresOn |-> JsPlus(nowv, JsTimes(body.expires_in, 1000)),
   serverUrl |-> a.serverUrl,
   sub |-> uniqueSub]

\* the token object built from the exchange and the user lookup
BuildToken(a, body, username, uniqueSub, nowv) ==
  [accessToken |-> body.access_token,
   name |-> username,
   applicationId |-> a.applicationId,
   applicationSecret |-> a.applicationSecret,
   refreshToken |-> body.refresh_token,
   expiresOn |-> ExpiresOn(nowv, body.expires_in),
   serverUrl |-> a.serverUrl,
   sub |-> uniqueSub]

(***************************************************************************)
(* refreshToken: the synchronous decisions.                                *)
(***************************************************************************)
\* RefreshBranch with the margin applied three times over
RefreshBranchWideMargin(tok, last, nowv) ==
  IF last = {} THEN "throw"
  ELSE LET lt == CHOOSE t \in last : TRUE
       IN IF Falsy(lt.expiresOn) THEN "legacy"
          ELSE IF JsGreater(lt.expiresOn, nowv + 3 * tokenExpirationMargin) THEN "valid"
          ELSE "silent"

\* RefreshBranch without the test for a legacy token
RefreshBranchNoLegacy(tok, last, nowv) ==
  IF last = {} THEN "throw"
  ELSE LET lt == CHOOSE t \in last : TRUE
       IN IF JsGreater(lt.expiresOn, nowv + tokenExpirationMargin) THEN "valid"
          ELSE "silent"

\* RefreshBranch deciding from the caller's token instead of the stored one
RefreshBranchFromArgument(tok, last, nowv) ==
  IF last = {} THEN "throw"
  ELSE IF Falsy(tok.expiresOn) THEN "legacy"
  ELSE IF JsGreater(tok.expiresOn, nowv + tokenExpirationMargin) THEN "valid"
  ELSE "silent"

\* RefreshBranch that takes a missing stored token for a legacy one
RefreshBranchMissingAsLegacy(tok, last, nowv) ==
  IF last = {} THEN "legacy"
  ELSE LET lt == CHOOSE t \in last : TRUE
       IN IF Falsy(lt.expiresOn) THEN "legacy"
          ELSE IF JsGreater(lt.expiresOn, nowv + tokenExpirationMargin) THEN "valid"
          ELSE "silent"

\* The branch taken after reading lastToken: "throw" when lastToken is
\* undefined (reading .expiresOn of undefined), "legacy", "valid" or "silent".
RefreshBranch(tok, last, nowv) ==
  IF last = {} THEN "throw"
  ELSE LET lt == CHOOSE t \in last : TRUE
       IN IF Falsy(lt.expiresOn) THEN "legacy"
          ELSE IF JsGreater(lt.expiresOn, nowv + tokenExpirationMargin) THEN "valid"
          ELSE "silent"

\* the refreshToken argument of the silent startOauth2 call
SilentRefreshToken(tok, lt) == lt.refreshToken

\* CatchBranch that prompts whatever store.state.offline reads
CatchBranchAlwaysPrompt(off) == "prompt"

\* CatchBranch that rethrows whatever store.state.offline reads
CatchBranchAlwaysThrow(off) == "throw"

\* catch (err): rethrow when offline, otherwise prompt and re-authorize
CatchBranch(off) == IF off THEN "throw" ELSE "prompt"

(***************************************************************************)
(* Errors.                                                                 *)
(***************************************************************************)
ErrTypeError == "TypeError: Cannot read property 'expiresOn' of undefined"
ErrAuthorize == "networkSvc.startOauth2 rejected"
ErrExchange == "access_token request rejected"
ErrUser == "user request rejected"
ErrMismatch == "Gitea account ID not expected."
Errors == {ErrTypeError, ErrAuthorize, ErrExchange, ErrUser, ErrMismatch}

(***************************************************************************)
(* Initial state.                                                          *)
(***************************************************************************)
NoArgs == [serverUrl |-> "", applicationId |-> "", applicationSecret |-> "", sub |-> Null]
NoResult == [pending |-> TRUE]

\* no invocation
Idle ==
  [op |-> "none", pc |-> "idle", token |-> {}, args |-> NoArgs, silent |-> FALSE,
   rtArg |-> Undefined, tokenBody |-> {}, username |-> "", result |-> NoResult,
   log |-> <<>>]

\* The stores the program can start with: alice's account is not linked, or
\* linked by a version that tracked no expiration, or linked with a token
\* that has reached its expiration; bob's account is not linked yet.
InitStores ==
  UNION {{{}, {LegacyToken(MkSub(s, "alice"))}, {ExpiringToken(MkSub(s, "alice"))}}
         : s \in Servers}

Init ==
  /\ tokens \in InitStores
  /\ now = StartTime
  /\ issued = 0
  /\ inv = [p \in Procs |-> Idle]

(***************************************************************************)
(* Steps shared by the operations, as functions of the frame f.            *)
(***************************************************************************)
StartArgs(serverUrl, sub) ==
  [serverUrl |-> serverUrl, applicationId |-> ApplicationId,
   applicationSecret |-> ApplicationSecret, sub |-> sub]

\* the invocation settles with r after the events lg (the exchange's locals
\* are dropped)
Settled(f, r, lg) ==
  [f EXCEPT !.pc = "done", !.result = r, !.log = f.log \o lg,
            !.silent = FALSE, !.rtArg = Undefined, !.tokenBody = {}]

\* startOauth2 up to its first await: the authorization popup when not
\* silent, the refresh_token exchange when silent
BeginOauth2(f, sil, rt) ==
  [f EXCEPT !.silent = sil, !.rtArg = rt, !.tokenBody = {}, !.username = "",
            !.pc = IF sil THEN "exchange" ELSE "authorize",
            !.log = f.log \o <<IF sil THEN "exchange_refresh" ELSE "authorize">>]

\* store.dispatch('modal/open', {type: 'providerRedirection', name: 'Gitea'})
\* (the exchange's locals of a startOauth2 call that has thrown are dropped)
OpenModal(f, lg) ==
  [f EXCEPT !.pc = "modal", !.log = f.log \o lg \o <<"modal">>,
            !.silent = FALSE, !.rtArg = Undefined, !.tokenBody = {}]

\* Thrown with the try block of refreshToken around its interactive
\* startOauth2 calls too
ThrownCaughtAlways(f, lg, err, off) ==
  IF f.op = "refreshToken" /\ Len(f.log) < 8
  THEN LET seen == lg \o <<err, IF off THEN "catch_offline" ELSE "catch_online">>
       IN IF CatchBranch(off) = "throw"
          THEN Settled(f, [error |-> err], seen)
          ELSE OpenModal(f, seen)
  ELSE Settled(f, [error |-> err], lg \o <<err>>)

\* The startOauth2 call in progress throws err after the events lg:
\* refreshToken catches the error of its silent call and reads
\* store.state.offline, which the network status sets at any time and is an
\* input off of the step; every other caller rejects with err.
Thrown(f, lg, err, off) ==
  IF f.op = "refreshToken" /\ f.silent
  THEN LET seen == lg \o <<err, IF off THEN "catch_offline" ELSE "catch_online">>
       IN IF CatchBranch(off) = "throw"
          THEN Settled(f, [error |-> err], seen)
          ELSE OpenModal(f, seen)
  ELSE Settled(f, [error |-> err], lg \o <<err>>)

(***************************************************************************)
(* Calls of the exported functions.                                        *)
(***************************************************************************)
\* The token object a caller holds for an account: one kept from an earlier
\* session, whatever the store holds by now.  refreshToken reads serverUrl,
\* applicationId, applicationSecret and sub of it, which every token object
\* of the account shares.
CallerToken(sub) == [LegacyToken(sub) EXCEPT !.accessToken = StaleAccessToken]

CallerTokens == {CallerToken(s) : s \in Subs}

\* A settlement is consumed by its caller in the run of the microtask queue
\* that settles it: no call, timer or network event is served before.
Quiescent == \A q \in Procs : inv[q].pc /= "done"

\* Invocations are interchangeable: the frames are taken in order
FreeSlot(p) == Quiescent /\ inv[p].pc = "idle" /\ (p = "p2" => inv["p1"].pc /= "idle")

\* refreshToken(token), up to its first await
RefreshTokenStart(t, toks, nowv) ==
  LET f == [Idle EXCEPT !.op = "refreshToken", !.token = {t},
                        !.args = StartArgs(t.serverUrl, t.sub)]
      last == GiteaTokensBySub(toks, t.sub)
      br == RefreshBranch(t, last, nowv)
      lt == CHOOSE x \in last : TRUE
  IN CASE br = "throw" -> Settled(f, [error |-> ErrTypeError], <<ErrTypeError>>)
       [] br = "legacy" -> OpenModal(f, <<>>)
       [] br = "valid" -> Settled(f, [token |-> lt], <<>>)
       [] br = "silent" -> BeginOauth2(f, TRUE, SilentRefreshToken(t, lt))

CallRefreshToken(p, t) ==
  /\ FreeSlot(p)
  /\ t \in CallerTokens
  /\ inv' = [inv EXCEPT ![p] = RefreshTokenStart(t, tokens, now)]
  /\ UNCHANGED <<tokens, now, issued>>

\* addAccount(serverUrl, applicationId, applicationSecret, sub), up to the
\* first await of its startOauth2 call
CallAddAccount(p, serverUrl, sub) ==
  /\ FreeSlot(p)
  /\ inv' = [inv EXCEPT ![p] =
               BeginOauth2([Idle EXCEPT !.op = "addAccount",
                                        !.args = StartArgs(serverUrl, sub)],
                           FALSE, Undefined)]
  /\ UNCHANGED <<tokens, now, issued>>

(***************************************************************************)
(* Continuations of startOauth2 and refreshToken.                          *)
(***************************************************************************)
\* the modal resolves: refreshToken calls startOauth2(serverUrl, ..., sub)
ModalResolve(p) ==
  /\ Quiescent
  /\ inv[p].pc = "modal"
  /\ inv' = [inv EXCEPT ![p] = BeginOauth2(inv[p], FALSE, Undefined)]
  /\ UNCHANGED <<tokens, now, issued>>

\* networkSvc.startOauth2 resolves with a code: the code is exchanged
AuthorizeOk(p) ==
  /\ Quiescent
  /\ inv[p].pc = "authorize"
  /\ inv' = [inv EXCEPT ![p].pc = "exchange",
                        ![p].log = inv[p].log \o <<"exchange_code">>]
  /\ UNCHANGED <<tokens, now, issued>>

\* networkSvc.startOauth2 rejects (the user closes the popup)
AuthorizeFail(p, offline) ==
  /\ Quiescent
  /\ inv[p].pc = "authorize"
  /\ inv' = [inv EXCEPT ![p] = Thrown(inv[p], <<>>, ErrAuthorize, offline)]
  /\ UNCHANGED <<tokens, now, issued>>

\* the token endpoint answers with a new pair: the user endpoint is called
ExchangeOk(p, expires_in) ==
  /\ Quiescent
  /\ inv[p].pc = "exchange"
  /\ issued < MaxIssued
  /\ issued' = issued + 1
  /\ inv' = [inv EXCEPT ![p].tokenBody =
                          {[access_token |-> issued + 1, refresh_token |-> issued + 1,
                            expires_in |-> expires_in]},
                        ![p].pc = "user",
                        ![p].log = inv[p].log \o <<"user">>]
  /\ UNCHANGED <<tokens, now>>

\* the token endpoint rejects the code or the refresh token
ExchangeFail(p, offline) ==
  /\ Quiescent
  /\ inv[p].pc = "exchange"
  /\ inv' = [inv EXCEPT ![p] = Thrown(inv[p], <<>>, ErrExchange, offline)]
  /\ UNCHANGED <<tokens, now, issued>>

\* AfterStartOauth2 that raises the badge whatever function made the call
AfterStartOauth2BadgeAlways(op) == <<"addBadge">>

\* what the caller of a startOauth2 call that returned does before it
\* returns the token: addAccount raises the badge, refreshToken does nothing
AfterStartOauth2(op) == IF op = "addAccount" THEN <<"addBadge">> ELSE <<>>

\* UserOk with the token stored before the sub check
UserOkStoresBeforeCheck(p, username, offline) ==
  /\ Quiescent
  /\ inv[p].pc = "user"
  /\ LET f == [inv[p] EXCEPT !.username = username]
         body == CHOOSE b \in f.tokenBody : TRUE
         uniqueSub == MkSub(f.args.serverUrl, username)
         t == BuildToken(f.args, body, username, uniqueSub, now)
     IN /\ tokens' = AddGiteaToken(tokens, t)
        /\ IF SubMismatch(f.args.sub, uniqueSub)
           THEN inv' = [inv EXCEPT ![p] =
                          Thrown(f, <<"addUserInfo">>, ErrMismatch, offline)]
           ELSE inv' = [inv EXCEPT ![p] =
                          Settled(f, [token |-> t],
                                  <<"addUserInfo", "addGiteaToken">> \o
                                  AfterStartOauth2(f.op))]
  /\ UNCHANGED <<now, issued>>

\* the user endpoint answers: userSvc.addUserInfo, the sub check, the token
\* built and stored, and for addAccount badgeSvc.addBadge
UserOk(p, username, offline) ==
  /\ Quiescent
  /\ inv[p].pc = "user"
  /\ LET f == [inv[p] EXCEPT !.username = username]
         body == CHOOSE b \in f.tokenBody : TRUE
         uniqueSub == MkSub(f.args.serverUrl, username)
         t == BuildToken(f.args, body, username, uniqueSub, now)
     IN IF SubMismatch(f.args.sub, uniqueSub)
        THEN /\ inv' = [inv EXCEPT ![p] =
                          Thrown(f, <<"addUserInfo">>, ErrMismatch, offline)]
             /\ UNCHANGED tokens
        ELSE /\ tokens' = AddGiteaToken(tokens, t)
             /\ inv' = [inv EXCEPT ![p] =
                          Settled(f, [token |-> t],
                                  <<"addUserInfo", "addGiteaToken">> \o
                                  AfterStartOauth2(f.op))]
  /\ UNCHANGED <<now, issued>>

\* the user endpoint rejects
UserFail(p, offline) ==
  /\ Quiescent
  /\ inv[p].pc = "user"
  /\ inv' = [inv EXCEPT ![p] = Thrown(inv[p], <<>>, ErrUser, offline)]
  /\ UNCHANGED <<tokens, now, issued>>

\* the caller has consumed the settlement
Return(p) ==
  /\ inv[p].pc = "done"
  /\ inv' = [inv EXCEPT ![p] = Idle]
  /\ UNCHANGED <<tokens, now, issued>>

(***************************************************************************)
(* The environment.                                                        *)
(***************************************************************************)
\* time passes
Tick ==
  /\ Quiescent
  /\ now < StartTime + MaxTicks * TickMs
  /\ now' = now + TickMs
  /\ UNCHANGED <<tokens, issued, inv>>

Next ==
  \/ \E p \in Procs, t \in CallerTokens : CallRefreshToken(p, t)
  \/ \E p \in Procs, s \in Servers, sub \in Subs \cup {Null} : CallAddAccount(p, s, sub)
  \/ \E p \in Procs : ModalResolve(p)
  \/ \E p \in Procs : AuthorizeOk(p)
  \/ \E p \in Procs, offline \in BOOLEAN : AuthorizeFail(p, offline)
  \/ \E p \in Procs, e \in ExpiresInValues : ExchangeOk(p, e)
  \/ \E p \in Procs, offline \in BOOLEAN : ExchangeFail(p, offline)
  \/ \E p \in Procs, u \in Usernames, offline \in BOOLEAN : UserOk(p, u, offline)
  \/ \E p \in Procs, offline \in BOOLEAN : UserFail(p, offline)
  \/ \E p \in Procs : Return(p)
  \/ Tick

Spec == Init /\ [][Next]_vars

(***************************************************************************)
(* Properties.                                                             *)
(***************************************************************************)
Has(lg, e) == \E i \in DOMAIN lg : lg[i] = e
Count(lg, e) == Cardinality({i \in DOMAIN lg : lg[i] = e})
IsToken(r) == "token" \in DOMAIN r
IsError(r) == "error" \in DOMAIN r

\* frame p leaves idle in this step: refreshToken is called
RefreshTokenCalled(p) == inv[p].pc = "idle" /\ inv'[p].op = "refreshToken"

\* C1: a refreshToken call that finds under token.sub a stored token whose
\* expiresOn is strictly greater than now + 5 minutes settles at once with
\* exactly that stored token, having made no call to the network, the OAuth2
\* popup or the modal, and leaves the token store as it was.
C1_ValidTokenReturned ==
  [][\A p \in Procs : RefreshTokenCalled(p) =>
       \A lt \in tokens :
         (/\ lt.sub = inv'[p].args.sub
          /\ lt.expiresOn \notin {Undefined, NaN}
          /\ lt.expiresOn > now + 5 * 60 * 1000)
         => /\ inv'[p].pc = "done"
            /\ inv'[p].result = [token |-> lt]
            /\ inv'[p].log = <<>>
            /\ tokens' = tokens]_vars

\* C1 witness: a refreshToken invocation has returned the stored, still
\* valid token without a single external call
C1_Witness ==
  \E p \in Procs :
    /\ inv[p].op = "refreshToken" /\ inv[p].pc = "done" /\ inv[p].log = <<>>
    /\ IsToken(inv[p].result)
    /\ inv[p].result.token \in tokens
    /\ inv[p].result.token.expiresOn > now + 5 * 60 * 1000
    /\ inv[p].result.token /= CHOOSE t \in inv[p].token : TRUE

\* a refreshToken invocation that took the legacy branch: its first external
\* call is the modal (the silent branch starts with the refresh_token exchange)
LegacyFrame(f) == f.op = "refreshToken" /\ f.log /= <<>> /\ f.log[1] = "modal"

\* C2: a refreshToken call that finds under token.sub a stored token without
\* expiresOn (absent, or not a number) opens the modal and then starts the
\* interactive authorization for that sub; it never issues the refresh_token
\* exchange, whatever refreshToken the stored token carries and whatever
\* store.state.offline reads.
C2_LegacyForcesInteractive ==
  [][\A p \in Procs :
       /\ RefreshTokenCalled(p) =>
            \A lt \in tokens :
              (lt.sub = inv'[p].args.sub /\ lt.expiresOn \in {Undefined, NaN})
              => inv'[p].pc = "modal" /\ inv'[p].log = <<"modal">>
       /\ LegacyFrame(inv'[p]) =>
            /\ ~Has(inv'[p].log, "exchange_refresh")
            /\ ~inv'[p].silent
            /\ inv'[p].args.sub \in {t.sub : t \in inv'[p].token}
            /\ inv'[p].pc /= "modal" =>
                 Len(inv'[p].log) >= 2 /\ inv'[p].log[2] = "authorize"]_vars

\* C2 witness: with a legacy token still stored, the invocation has left the
\* modal and waits for the interactive authorization
C2_Witness ==
  \E p \in Procs :
    /\ inv[p].op = "refreshToken" /\ inv[p].pc = "authorize"
    /\ inv[p].log = <<"modal", "authorize">>
    /\ LegacyToken(inv[p].args.sub) \in tokens

\* the place of the first e in lg (0 when there is none)
IndexOf(lg, e) ==
  IF Has(lg, e) THEN CHOOSE i \in DOMAIN lg : lg[i] = e /\ \A j \in 1..(i - 1) : lg[j] /= e
  ELSE 0

\* C3: when the silent acquisition of a refreshToken invocation has failed
\* (exchange, user lookup or sub check) and store.state.offline read true,
\* the invocation is rejected with that failure and has opened no modal and
\* started no interactive authorization.
C3_OfflineFailureRejects ==
  \A p \in Procs :
    Has(inv[p].log, "catch_offline") =>
      LET lg == inv[p].log
          n == Len(lg)
      IN /\ inv[p].op = "refreshToken"
         /\ lg[1] = "exchange_refresh"
         /\ lg[n] = "catch_offline"
         /\ lg[n - 1] \in {ErrExchange, ErrUser, ErrMismatch}
         /\ inv[p].pc = "done"
         /\ inv[p].result = [error |-> lg[n - 1]]
         /\ ~Has(lg, "modal")
         /\ ~Has(lg, "authorize")
         /\ ~Has(lg, "exchange_code")

\* C3 witness: a silent acquisition that failed at the sub check while
\* offline, rejected with the identity-mismatch error
C3_Witness ==
  \E p \in Procs :
    /\ inv[p].pc = "done"
    /\ inv[p].log = <<"exchange_refresh", "user", "addUserInfo", ErrMismatch, "catch_offline">>
    /\ inv[p].result = [error |-> ErrMismatch]

\* C4: when the silent acquisition of a refreshToken invocation has failed
\* and store.state.offline read false, the invocation opens the modal exactly
\* once, starts the interactive authorization (once, for the same sub) only
\* when the modal has resolved, and settles with what that interactive
\* acquisition settles with.
C4_OnlineFailurePrompts ==
  \A p \in Procs :
    Has(inv[p].log, "catch_online") =>
      LET lg == inv[p].log
          n == Len(lg)
          c == IndexOf(lg, "catch_online")
      IN /\ inv[p].op = "refreshToken"
         /\ lg[1] = "exchange_refresh"
         /\ Count(lg, "catch_online") = 1
         /\ Count(lg, "modal") = 1
         /\ lg[c + 1] = "modal"
         /\ Count(lg, "authorize") <= 1
         /\ Count(lg, "exchange_refresh") = 1
         /\ (inv[p].pc = "modal") = (n = c + 1)
         /\ n > c + 1 => lg[c + 2] = "authorize" /\ ~inv[p].silent
         /\ inv[p].args.sub \in {t.sub : t \in inv[p].token}
         /\ inv[p].pc = "done" =>
              /\ Has(lg, "authorize")
              /\ IsError(inv[p].result) =>
                   /\ inv[p].result.error = lg[n]
                   /\ lg[n] \in {ErrAuthorize, ErrExchange, ErrUser, ErrMismatch}
              /\ IsToken(inv[p].result) =>
                   /\ lg[n] = "addGiteaToken"
                   /\ inv[p].result.token.sub = inv[p].args.sub
                   /\ Has(lg, "exchange_code")
         /\ inv[p].pc /= "done" => inv[p].result = NoResult

\* C4 witness: silent failure while online, one modal, then an interactive
\* acquisition that succeeded and whose token is the invocation's result
C4_Witness ==
  \E p \in Procs :
    /\ inv[p].pc = "done"
    /\ inv[p].log = <<"exchange_refresh", ErrExchange, "catch_online", "modal",
                      "authorize", "exchange_code", "user", "addUserInfo",
                      "addGiteaToken">>
    /\ IsToken(inv[p].result)
    /\ inv[p].result.token \in tokens

\* the user lookup of frame p's startOauth2 call resolves in this step
UserResolved(p) == inv[p].pc = "user" /\ inv'[p].username /= ""

\* C5: when the user lookup of a startOauth2 call (interactive or silent)
\* that was given a non-null expected sub resolves to another sub, the call
\* throws the identity-mismatch error and the token store is left exactly as
\* it was: no token is stored, for any sub.
C5_MismatchRejectsWithoutWrite ==
  [][\A p \in Procs :
       (/\ UserResolved(p)
        /\ inv[p].args.sub /= Null
        /\ MkSub(inv[p].args.serverUrl, inv'[p].username) /= inv[p].args.sub)
       => /\ tokens' = tokens
          /\ Len(inv'[p].log) >= Len(inv[p].log) + 2
          /\ SubSeq(inv'[p].log, 1, Len(inv[p].log) + 2)
               = inv[p].log \o <<"addUserInfo", ErrMismatch>>
          /\ ~Has(inv'[p].log, "addGiteaToken")
          /\ inv'[p].pc = "done" => inv'[p].result = [error |-> ErrMismatch]
          /\ inv'[p].pc /= "done" =>
               /\ inv[p].op = "refreshToken" /\ inv[p].silent
               /\ inv'[p].pc = "modal" /\ inv'[p].result = NoResult]_vars

\* C5 witness: an interactive acquisition for an expected sub resolved to
\* another account and was rejected, while the store held tokens
C5_Witness ==
  \E p \in Procs :
    /\ inv[p].pc = "done"
    /\ inv[p].args.sub /= Null
    /\ inv[p].username /= ""
    /\ MkSub(inv[p].args.serverUrl, inv[p].username) /= inv[p].args.sub
    /\ Has(inv[p].log, "authorize")
    /\ inv[p].result = [error |-> ErrMismatch]
    /\ tokens /= {}

\* frame p's silent acquisition, started by refreshToken from the stored
\* token it read, stores its token in this step
SilentRefreshStores(p) ==
  /\ inv[p].op = "refreshToken" /\ inv[p].silent
  /\ UserResolved(p)
  /\ Has(inv'[p].log, "addGiteaToken")

\* C6: a refreshToken invocation never replaces a token that another
\* invocation stored after it read the store with one obtained from the
\* credentials it read before: when a silent acquisition stores its token,
\* the store still holds under that sub the token whose refreshToken the
\* acquisition was started with.
C6_NoStaleClobber ==
  [][\A p \in Procs :
       SilentRefreshStores(p) =>
         \A t \in tokens :
           t.sub = inv[p].args.sub => t.refreshToken = inv[p].rtArg]_vars

\* the token store holds at most one token per sub
OneTokenPerSub(toks) == \A t1, t2 \in toks : t1.sub = t2.sub => t1 = t2

\* frame p's startOauth2 call succeeds in this step
AcquisitionSucceeds(p) == UserResolved(p) /\ Has(inv'[p].log, "addGiteaToken")

\* C7: the token store holds at most one token per sub at any time, and
\* every successful acquisition leaves under the resolved sub exactly the
\* token it built from the response (whatever was stored there before), the
\* entries of the other subs being untouched.
C7_OneTokenPerSubReplaced ==
  /\ OneTokenPerSub(tokens)
  /\ [][/\ OneTokenPerSub(tokens')
        /\ \A p \in Procs :
             AcquisitionSucceeds(p) =>
               LET u == MkSub(inv[p].args.serverUrl, inv'[p].username)
                   t == inv'[p].result.token
               IN /\ IsToken(inv'[p].result)
                  /\ {x \in tokens' : x.sub = u} = {t}
                  /\ \A b \in inv[p].tokenBody : t.accessToken = b.access_token
                  /\ {x \in tokens' : x.sub /= u} = {x \in tokens : x.sub /= u}
                  /\ Cardinality(tokens') =
                       Cardinality(tokens) + (IF \E x \in tokens : x.sub = u THEN 0 ELSE 1)]_vars

\* C7 witness: an acquisition for a sub that already had a token has
\* settled and the store holds the two accounts, one token each
C7_Witness ==
  \E p \in Procs :
    /\ inv[p].pc = "done" /\ IsToken(inv[p].result)
    /\ Has(inv[p].log, "addGiteaToken")
    /\ inv[p].result.token \in tokens
    /\ inv[p].result.token.accessToken = 2
    /\ Cardinality(tokens) = 2
    /\ \E t \in tokens : t.accessToken = 0

\* C8: every token built and stored by a successful startOauth2 carries an
\* expiresOn that is a number strictly greater than the time at which the
\* acquisition completed, whatever expires_in the token endpoint answered
\* (missing included).
C8_ExpiresOnInFuture ==
  [][\A p \in Procs :
       AcquisitionSucceeds(p) =>
         /\ inv'[p].result.token \in tokens'
         /\ inv'[p].result.token.expiresOn \notin {Undefined, NaN}
         /\ inv'[p].result.token.expiresOn > now]_vars

\* C9: a refreshToken call that finds under token.sub a stored token whose
\* expiresOn is a number not greater than now + 5 minutes starts the silent
\* acquisition with the stored refreshToken; when that acquisition succeeds
\* the invocation settles with the token built from the response, the store
\* holds exactly that token under the same sub, and the invocation has
\* opened no modal and started no interactive authorization.
C9_SilentRefreshReturnsNewToken ==
  [][\A p \in Procs :
       /\ RefreshTokenCalled(p) =>
            \A lt \in tokens :
              (/\ lt.sub = inv'[p].args.sub
               /\ lt.expiresOn \notin {Undefined, NaN, 0}
               /\ ~(lt.expiresOn > now + 5 * 60 * 1000))
              => /\ inv'[p].pc = "exchange" /\ inv'[p].silent
                 /\ inv'[p].rtArg = lt.refreshToken
                 /\ inv'[p].log = <<"exchange_refresh">>
       /\ SilentRefreshStores(p) =>
            LET t == inv'[p].result.token
            IN /\ inv'[p].pc = "done" /\ IsToken(inv'[p].result)
               /\ \A b \in inv[p].tokenBody :
                    t.accessToken = b.access_token /\ t.refreshToken = b.refresh_token
               /\ t.sub = inv[p].args.sub
               /\ t \notin tokens
               /\ {x \in tokens' : x.sub = inv[p].args.sub} = {t}
               /\ inv'[p].log =
                    <<"exchange_refresh", "user", "addUserInfo", "addGiteaToken">>]_vars

\* C9 witness: the stored token had expired, the silent acquisition
\* succeeded, and the returned token is the one the store holds
C9_Witness ==
  \E p \in Procs :
    /\ inv[p].op = "refreshToken" /\ inv[p].pc = "done"
    /\ inv[p].log = <<"exchange_refresh", "user", "addUserInfo", "addGiteaToken">>
    /\ IsToken(inv[p].result)
    /\ inv[p].result.token \in tokens
    /\ inv[p].result.token.sub = inv[p].args.sub
    /\ inv[p].result.token.accessToken = 1
    /\ inv[p].result.token.expiresOn = now + 600 * 1000

\* token objects of account sub that differ from CallerToken(sub) and from
\* each other in accessToken, refreshToken and expiresOn: expired, still
\* looking valid, or the stored one
TokenObjects(sub) ==
  {ExpiringToken(sub),
   [ExpiringToken(sub) EXCEPT !.accessToken = StaleAccessToken,
                              !.refreshToken = StaleAccessToken,
                              !.expiresOn = now + 3 * tokenExpirationMargin]}
  \cup {t \in tokens : t.sub = sub}

\* C10: what a refreshToken call does up to its first await (the branch
\* taken, the token the valid branch settles with, the refreshToken sent in
\* the silent exchange) is what it would have done for any other token
\* object of the same account, whatever expiresOn, accessToken and
\* refreshToken that object carries: it is decided by the store and the
\* clock, not by the argument.
C10_DecisionFromStoredToken ==
  [][\A p \in Procs :
       RefreshTokenCalled(p) =>
         \A t \in TokenObjects(inv'[p].args.sub) :
           [RefreshTokenStart(t, tokens, now) EXCEPT !.token = inv'[p].token]
             = inv'[p]]_vars

\* C10 witness: an invocation called with a token object that differs from
\* the stored one in all three fields sends the stored refreshToken
C10_Witness ==
  \E p \in Procs : \E t \in inv[p].token : \E lt \in tokens :
    /\ inv[p].op = "refreshToken" /\ inv[p].pc = "exchange" /\ inv[p].silent
    /\ lt.sub = t.sub
    /\ t.expiresOn /= lt.expiresOn
    /\ t.accessToken /= lt.accessToken
    /\ t.refreshToken /= lt.refreshToken
    /\ Falsy(t.expiresOn)
    /\ inv[p].rtArg = lt.refreshToken

\* frame p, a refreshToken invocation, takes this step (its call included)
RefreshTokenSteps(p) ==
  /\ inv'[p] /= inv[p]
  /\ inv[p].op = "refreshToken" \/ inv'[p].op = "refreshToken"

\* the sub of the token handed to the refreshToken invocation of frame p
RefreshedSub(p) ==
  IF inv[p].op = "refreshToken" THEN inv[p].args.sub ELSE inv'[p].args.sub

\* C11: a refreshToken invocation for a token of sub A reads the store entry
\* of A only (its call does the same whatever the store holds under the
\* other subs), and no step of it, on any path, changes the store entry of
\* a sub other than A.
C11_OtherSubsUntouched ==
  [][\A p \in Procs :
       RefreshTokenSteps(p) =>
         LET a == RefreshedSub(p)
             own == {x \in tokens : x.sub = a}
         IN /\ {x \in tokens' : x.sub /= a} = {x \in tokens : x.sub /= a}
            /\ RefreshTokenCalled(p) =>
                 \A t \in inv'[p].token :
                   /\ inv'[p] = RefreshTokenStart(t, own, now)
                   /\ inv'[p] = RefreshTokenStart(
                                  t, own \cup {LegacyToken(b) : b \in Subs \ {a}}, now)]_vars

\* C11 witness: a refreshToken invocation has stored a new token for its sub
\* while the store holds the token of another account
C11_Witness ==
  \E p \in Procs : \E x \in tokens :
    /\ inv[p].op = "refreshToken" /\ inv[p].pc = "done"
    /\ Has(inv[p].log, "addGiteaToken")
    /\ inv[p].result.token \in tokens
    /\ x.sub /= inv[p].args.sub

(***************************************************************************)
(* The authenticated operations: getTree, getCommits, uploadFile,          *)
(* removeFile, downloadFile.  One operation runs at a time: its frame is   *)
(* inv[Outer], the frame of the refreshToken call it awaits is inv[Inner]. *)
(* The frame of an operation holds op, pc ("refresh", "request", "done"),  *)
(* token, args, requests (the provider API calls issued, in order) and     *)
(* result.                                                                 *)
(***************************************************************************)
Inner == "p1"
Outer == "p2"

Operations == {"getTree", "getCommits", "uploadFile", "removeFile", "downloadFile"}

ProjectId == "org/repo"
Branch == "master"
Path == "docs/a b.md"
Content == "hello"

EmptySha == 0         \* sha: ''
PriorSha == 7         \* sha: the hash a download returned
ShaValues == {Undefined, EmptySha, PriorSha}

\* the argument objects the operations are called with: sha is a parameter
\* of uploadFile and removeFile only
OpCalls ==
  {[op |-> o, sha |-> h] : o \in {"uploadFile", "removeFile"}, h \in ShaValues}
  \cup {[op |-> o, sha |-> Undefined] : o \in {"getTree", "getCommits", "downloadFile"}}

OpArgs(sha) ==
  [projectId |-> ProjectId, branch |-> Branch, path |-> Path, content |-> Content,
   sha |-> sha]

\* conversions, kept as terms
encodeURIComponent(x) == <<"encodeURIComponent", x>>
encodeBase64(x) == <<"base64", x>>
decodeBase64(b) == b[2]

\* the commit message template name with {{path}} replaced by path
getCommitMessage(name, path) == <<name, path>>

ErrRequest == "api request rejected"

(***************************************************************************)
(* The options each operation hands to request.  method is "GET" where the *)
(* code gives none.                                                        *)
(***************************************************************************)
getTreeOptions(a) ==
  [method |-> "GET",
   url |-> <<"repos", a.projectId, "git/trees", a.branch>>,
   payload |-> [params |-> [recursive |-> TRUE, per_page |-> 9999]]]

getCommitsOptions(a) ==
  [method |-> "GET",
   url |-> <<"repos", a.projectId, "commits">>,
   payload |-> [params |-> [sha |-> a.branch, path |-> a.path]]]

\* uploadFileOptions whose body leaves the sha out
uploadFileOptionsWithoutSha(a) ==
  [method |-> IF ~Falsy(a.sha) THEN "PUT" ELSE "POST",
   url |-> <<"repos", a.projectId, "contents", encodeURIComponent(a.path)>>,
   payload |-> [body |-> [message |-> getCommitMessage(
                                        IF ~Falsy(a.sha) THEN "updateFileMessage"
                                        ELSE "createFileMessage", a.path),
                          content |-> encodeBase64(a.content),
                          sha |-> Undefined,
                          branch |-> a.branch]]]

uploadFileOptions(a) ==
  [method |-> IF ~Falsy(a.sha) THEN "PUT" ELSE "POST",
   url |-> <<"repos", a.projectId, "contents", encodeURIComponent(a.path)>>,
   payload |-> [body |-> [message |-> getCommitMessage(
                                        IF ~Falsy(a.sha) THEN "updateFileMessage"
                                        ELSE "createFileMessage", a.path),
                          content |-> encodeBase64(a.content),
                          sha |-> a.sha,
                          branch |-> a.branch]]]

removeFileOptions(a) ==
  [method |-> "DELETE",
   url |-> <<"repos", a.projectId, "contents", encodeURIComponent(a.path)>>,
   payload |-> [body |-> [message |-> getCommitMessage("deleteFileMessage", a.path),
                          sha |-> a.sha,
                          branch |-> a.branch]]]

downloadFileOptions(a) ==
  [method |-> "GET",
   url |-> <<"repos", a.projectId, "contents", encodeURIComponent(a.path)>>,
   payload |-> [params |-> [ref |-> a.branch]]]

Options(op, a) ==
  CASE op = "getTree" -> getTreeOptions(a)
    [] op = "getCommits" -> getCommitsOptions(a)
    [] op = "uploadFile" -> uploadFileOptions(a)
    [] op = "removeFile" -> removeFileOptions(a)
    [] op = "downloadFile" -> downloadFileOptions(a)

\* request({ accessToken, serverUrl }, options): the call handed to
\* networkSvc.request
request(tok, options) ==
  [method |-> options.method,
   url |-> <<tok.serverUrl, "api/v1", options.url>>,
   payload |-> options.payload,
   authorization |-> <<"Bearer", tok.accessToken>>]

\* the body the provider answers an operation's call with
ResponseBody(op) ==
  IF op = "downloadFile"
  THEN [sha |-> PriorSha, content |-> encodeBase64(Content)]
  ELSE [answer |-> op]

\* what the operation returns for the body of the response
OpResult(op, body) ==
  IF op = "downloadFile"
  THEN [sha |-> body.sha, data |-> decodeBase64(body.content)]
  ELSE body

(***************************************************************************)
(* Steps of an authenticated operation.                                    *)
(***************************************************************************)
\* the operation's frame at its await of this.refreshToken(token)
OpStart(op, t, a) ==
  [op |-> op, pc |-> "refresh", token |-> {t}, args |-> a, requests |-> <<>>,
   result |-> NoResult]

\* RefreshedToken that keeps the token the operation was called with
RefreshedTokenFromArgument(f, r) == CHOOSE t \in f.token : TRUE

\* const refreshedToken = await this.refreshToken(token)
RefreshedToken(f, r) == r.token

\* The refreshToken call has settled with r: the operation rejects with its
\* error, or issues its one call with the refreshed token.
AfterRefresh(f, r) ==
  IF IsToken(r)
  THEN [f EXCEPT !.pc = "request",
                 !.requests = Append(@, request(RefreshedToken(f, r), Options(f.op, f.args)))]
  ELSE [f EXCEPT !.pc = "done", !.result = r]

\* AfterRequestRejected that issues the call once more
AfterRequestRejectedRetry(f, err) ==
  IF Len(f.requests) < 2
  THEN [f EXCEPT !.requests = Append(@, f.requests[Len(f.requests)])]
  ELSE [f EXCEPT !.pc = "done", !.result = [error |-> err]]

\* the provider API call has rejected with err: so does the operation
AfterRequestRejected(f, err) == [f EXCEPT !.pc = "done", !.result = [error |-> err]]

\* an operation is called: it calls refreshToken(token), which runs up to
\* its first await
CallOperation(c, t) ==
  /\ inv[Inner].pc = "idle" /\ inv[Outer].pc = "idle"
  /\ t \in CallerTokens
  /\ inv' = [inv EXCEPT ![Outer] = OpStart(c.op, t, OpArgs(c.sha)),
                        ![Inner] = RefreshTokenStart(t, tokens, now)]
  /\ UNCHANGED <<tokens, now, issued>>

\* the operation resumes from its await of refreshToken
RefreshSettles ==
  /\ inv[Inner].pc = "done" /\ inv[Outer].pc = "refresh"
  /\ inv' = [inv EXCEPT ![Inner] = Idle,
                        ![Outer] = AfterRefresh(inv[Outer], inv[Inner].result)]
  /\ UNCHANGED <<tokens, now, issued>>

\* the provider answers the operation's call
RequestOk ==
  /\ inv[Outer].pc = "request"
  /\ inv' = [inv EXCEPT ![Outer].pc = "done",
                        ![Outer].result =
                          [value |-> OpResult(inv[Outer].op, ResponseBody(inv[Outer].op))]]
  /\ UNCHANGED <<tokens, now, issued>>

\* the operation's call rejects
RequestFail ==
  /\ inv[Outer].pc = "request"
  /\ inv' = [inv EXCEPT ![Outer] = AfterRequestRejected(inv[Outer], ErrRequest)]
  /\ UNCHANGED <<tokens, now, issued>>

\* the account is removed from the store by the application, between two
\* operations
RemoveAccount(sub) ==
  /\ inv[Inner].pc = "idle" /\ inv[Outer].pc = "idle"
  /\ \E t \in tokens : t.sub = sub
  /\ tokens' = {t \in tokens : t.sub /= sub}
  /\ UNCHANGED <<now, issued, inv>>

OpNext ==
  \/ \E c \in OpCalls, t \in CallerTokens : CallOperation(c, t)
  \/ RefreshSettles
  \/ ModalResolve(Inner)
  \/ AuthorizeOk(Inner)
  \/ \E offline \in BOOLEAN : AuthorizeFail(Inner, offline)
  \/ \E e \in ExpiresInValues : ExchangeOk(Inner, e)
  \/ \E offline \in BOOLEAN : ExchangeFail(Inner, offline)
  \/ \E u \in Usernames, offline \in BOOLEAN : UserOk(Inner, u, offline)
  \/ \E offline \in BOOLEAN : UserFail(Inner, offline)
  \/ RequestOk
  \/ RequestFail
  \/ Return(Outer)
  \/ Tick
  \/ \E sub \in Subs : RemoveAccount(sub)

OpSpec == Init /\ [][OpNext]_vars

(***************************************************************************)
(* Properties of the authenticated operations (under OpSpec).              *)
(***************************************************************************)
\* C12: the call uploadFile issues is a create (POST, createFileMessage)
\* when sha is unset (undefined, or empty) and an update (PUT,
\* updateFileMessage) carrying exactly the supplied sha when sha is set:
\* never an update without the sha, never a create for a supplied hash.
C12_UploadCreateOrUpdate ==
  LET f == inv[Outer]
  IN (f.op = "uploadFile" /\ f.requests /= <<>>) =>
       LET r == f.requests[1]
           sha == f.args.sha
       IN /\ r.method \in {"POST", "PUT"}
          /\ sha \in {Undefined, EmptySha} =>
               /\ r.method = "POST"
               /\ r.payload.body.message = <<"createFileMessage", Path>>
          /\ sha \notin {Undefined, EmptySha} =>
               /\ r.method = "PUT"
               /\ r.payload.body.message = <<"updateFileMessage", Path>>
          /\ r.method = "PUT" => r.payload.body.sha = sha /\ sha = PriorSha
          /\ r.payload.body.sha = sha
          /\ r.url[3] = <<"repos", ProjectId, "contents", <<"encodeURIComponent", Path>>>>

\* C12 witness: an upload with a prior hash has issued its update call
C12_Witness ==
  /\ inv[Outer].op = "uploadFile" /\ inv[Outer].pc = "request"
  /\ inv[Outer].args.sha = PriorSha
  /\ Len(inv[Outer].requests) = 1
  /\ inv[Outer].requests[1].method = "PUT"
  /\ inv[Outer].requests[1].payload.body.sha = PriorSha

(***************************************************************************)
(* getProjectId.  Strings are sequences of characters.                     *)
(***************************************************************************)
MaxPathLen == 4       \* characters of a projectPath

Chars == {"/", "a", "b"}
Paths == UNION {[1..n -> Chars] : n \in 0..MaxPathLen}

\* projectId: not given (undefined or ''), or an id
NoProjectId == <<>>
ProjectIdValues == {NoProjectId, <<"4", "2">>}

\* s[i..] is a match of [^/]+\/[^/]+$
MatchesFrom(s, i) ==
  \E k \in (i + 1)..(Len(s) - 1) :
    /\ s[k] = "/"
    /\ \A j \in i..(k - 1) : s[j] /= "/"
    /\ \A j \in (k + 1)..Len(s) : s[j] /= "/"

\* projectPath.match(/([^/]+\/[^/]+)$/): the capture of the leftmost match,
\* {} when match returns null
RepoFullNameMatch(s) ==
  IF \E i \in 1..Len(s) : MatchesFrom(s, i)
  THEN LET i == CHOOSE i \in 1..Len(s) :
                  MatchesFrom(s, i) /\ \A j \in 1..(i - 1) : ~MatchesFrom(s, j)
       IN {SubSeq(s, i, Len(s))}
  ELSE {}

ErrNotIterable == "TypeError: object null is not iterable"

\* getProjectId({ projectPath, projectId })
getProjectId(projectPath, projectId) ==
  IF projectId /= NoProjectId
  THEN [value |-> projectId]
  ELSE IF RepoFullNameMatch(projectPath) = {}
       THEN [error |-> ErrNotIterable]
       ELSE [value |-> CHOOSE m \in RepoFullNameMatch(projectPath) : TRUE]

\* the frame of a function called on its own
Main == "p1"

CallGetProjectId(projectPath, projectId) ==
  /\ inv[Main].pc = "idle"
  /\ inv' = [inv EXCEPT ![Main] =
               [op |-> "getProjectId", pc |-> "done",
                args |-> [projectPath |-> projectPath, projectId |-> projectId],
                result |-> getProjectId(projectPath, projectId)]]
  /\ UNCHANGED <<tokens, now, issued>>

PathNext ==
  \/ \E projectPath \in Paths, projectId \in ProjectIdValues :
       CallGetProjectId(projectPath, projectId)
  \/ Return(Main)

PathSpec == Init /\ [][PathNext]_vars

\* the '/'-delimited segments of s, i.e. s.split('/')
RECURSIVE Segments(_)
Segments(s) ==
  IF \A i \in 1..Len(s) : s[i] /= "/"
  THEN <<s>>
  ELSE LET k == CHOOSE k \in 1..Len(s) : s[k] = "/" /\ \A j \in 1..(k - 1) : s[j] /= "/"
       IN <<SubSeq(s, 1, k - 1)>> \o Segments(SubSeq(s, k + 1, Len(s)))

\* the last two segments of s joined by '/'
LastTwoSegments(s) ==
  LET g == Segments(s)
  IN g[Len(g) - 1] \o <<"/">> \o g[Len(g)]

\* C13: getProjectId returns the supplied projectId unchanged when one is
\* given, and otherwise, for every projectPath of at least two segments, the
\* last two segments joined by '/'.
C13_ProjectIdOrLastTwoSegments ==
  LET f == inv[Main]
  IN (f.op = "getProjectId" /\ f.pc = "done") =>
       /\ f.args.projectId /= NoProjectId => f.result = [value |-> f.args.projectId]
       /\ (f.args.projectId = NoProjectId /\ Len(Segments(f.args.projectPath)) >= 2)
          => f.result = [value |-> LastTwoSegments(f.args.projectPath)]

\* the provider API calls issued by the operation of frame f
Requests(f) == IF f.op \in Operations THEN f.requests ELSE <<>>

\* C14: an authenticated operation issues no provider API call while its
\* refreshToken call is pending and one at most in all; the call is issued
\* in the step that resumes from a refreshToken call that returned a token,
\* and its Authorization header (and server) are those of the returned
\* token, not of the token the operation was called with.
C14_OneCallAfterRefresh ==
  [][LET f == inv[Outer]
         g == inv'[Outer]
     IN /\ Len(Requests(g)) <= 1
        /\ g.op \in Operations =>
             /\ g.pc = "refresh" => g.requests = <<>>
             /\ g.pc = "request" => Len(g.requests) = 1
             /\ (g.pc = "done" /\ "value" \in DOMAIN g.result) => Len(g.requests) = 1
        /\ Len(Requests(g)) > Len(Requests(f)) =>
             /\ f.pc = "refresh"
             /\ inv[Inner].op = "refreshToken" /\ inv[Inner].pc = "done"
             /\ IsToken(inv[Inner].result)
             /\ LET r == g.requests[1]
                    t == inv[Inner].result.token
                IN /\ r.authorization = <<"Bearer", t.accessToken>>
                   /\ r.url[1] = t.serverUrl
                   /\ r.method = Options(g.op, g.args).method
                   /\ t \in tokens
                   /\ \A c \in g.token : r.authorization /= <<"Bearer", c.accessToken>>]_vars

\* C14 witness: the call of an operation carries the access token that the
\* silent refresh has just obtained, the caller's token being a stale one
C14_Witness ==
  /\ inv[Outer].op \in Operations /\ inv[Outer].pc = "request"
  /\ Len(inv[Outer].requests) = 1
  /\ inv[Outer].requests[1].authorization = <<"Bearer", 1>>
  /\ \A c \in inv[Outer].token : c.accessToken = StaleAccessToken
  /\ \E t \in tokens : t.accessToken = 1

\* C15: an authenticated operation retries nothing.  When its refreshToken
\* call rejects, the operation rejects with that failure in the same step
\* and has issued no provider API call; when its provider API call rejects,
\* the operation rejects with that failure in the same step, having issued
\* that one call and started no further refreshToken call.
C15_NoRetry ==
  [][LET f == inv[Outer]
         g == inv'[Outer]
     IN /\ (/\ f.op \in Operations /\ f.pc = "refresh"
            /\ inv[Inner].pc = "done" /\ IsError(inv[Inner].result))
           => /\ g.pc = "done"
              /\ g.result = inv[Inner].result
              /\ g.requests = <<>>
              /\ inv'[Inner] = Idle
        /\ (/\ f.op \in Operations /\ f.pc = "request"
            /\ g /= f /\ "value" \notin DOMAIN g.result)
           => /\ g.pc = "done"
              /\ g.result = [error |-> ErrRequest]
              /\ g.requests = f.requests /\ Len(g.requests) = 1
              /\ inv[Inner] = Idle /\ inv'[Inner] = Idle
        /\ (f.op \in Operations /\ f.pc = "done") =>
             /\ g = Idle
             /\ inv[Inner] = Idle /\ inv'[Inner] = Idle]_vars

\* C15 witness: the one call of an operation was rejected and the operation
\* has rejected with that failure
C15_Witness ==
  /\ inv[Outer].op \in Operations /\ inv[Outer].pc = "done"
  /\ inv[Outer].result = [error |-> ErrRequest]
  /\ Len(inv[Outer].requests) = 1
  /\ inv[Inner] = Idle

(***************************************************************************)
(* The identity resolver registered with userSvc.setInfoResolver.  Its     *)
(* frame holds op, pc ("request", "done"), args, requests (the lookups     *)
(* sent), failure (the error caught by the try block, {} when none) and    *)
(* result.  An error is a record of its message and its HTTP status        *)
(* (Undefined when it carries none).                                       *)
(***************************************************************************)
subPrefix == "gt"

NotFound == 404
HttpStatuses == {NotFound, 429, 500, Undefined}

ErrRetry == [message |-> "RETRY", status |-> Undefined]
ErrNoMatch == [message |-> "TypeError: object null is not iterable", status |-> Undefined]
ErrNoBody == [message |-> "TypeError: Cannot read property 'username' of undefined",
              status |-> Undefined]
HttpError(status) == [message |-> "request failed", status |-> status]

\* sub.match(/^(.+)\/([^/]+)$/): <<serverUrl, username>>, {} when null
SubMatch(s) ==
  IF \E k \in 2..(Len(s) - 1) : s[k] = "/" /\ \A j \in (k + 1)..Len(s) : s[j] /= "/"
  THEN LET k == CHOOSE k \in 2..(Len(s) - 1) :
                  s[k] = "/" /\ \A j \in (k + 1)..Len(s) : s[j] /= "/"
       IN {<<SubSeq(s, 1, k - 1), SubSeq(s, k + 1, Len(s))>>}
  ELSE {}

\* InfoCatch that reports every failure as transient
InfoCatchAlwaysRetry(err) == ErrRetry

\* catch (err): a 404 is rethrown, anything else becomes Error('RETRY')
InfoCatch(err) == IF err.status /= NotFound THEN ErrRetry ELSE err

\* the try block has thrown err
InfoThrown(f, err) ==
  [f EXCEPT !.pc = "done", !.failure = {err}, !.result = [error |-> InfoCatch(err)]]

\* the resolver is called with sub: up to its await of networkSvc.request
InfoStart(sub) ==
  LET f == [op |-> "infoResolver", pc |-> "request", args |-> [sub |-> sub],
            requests |-> <<>>, failure |-> {}, result |-> NoResult]
  IN IF SubMatch(sub) = {}
     THEN InfoThrown(f, ErrNoMatch)
     ELSE LET m == CHOOSE m \in SubMatch(sub) : TRUE
          IN [f EXCEPT !.requests = <<[url |-> <<m[1], "api/v1/users", m[2]>>]>>]

\* the bodies the users endpoint answers with: none, or a user with or
\* without an avatar ({} is undefined)
UserBodies ==
  {{}} \cup {{[username |-> u, avatar_url |-> a]} : u \in Usernames, a \in {"", "avatar.png"}}

\* the lookup has resolved with body
InfoResolved(f, body) ==
  IF body = {}
  THEN InfoThrown(f, ErrNoBody)
  ELSE LET user == CHOOSE u \in body : TRUE
           serverUrl == (CHOOSE m \in SubMatch(f.args.sub) : TRUE)[1]
           uniqueSub == MkSub(serverUrl, user.username)
       IN [f EXCEPT !.pc = "done",
                    !.result = [value |-> [id |-> <<subPrefix, uniqueSub>>,
                                           name |-> user.username,
                                           imageUrl |-> user.avatar_url]]]

CallInfoResolver(sub) ==
  /\ inv[Main].pc = "idle"
  /\ inv' = [inv EXCEPT ![Main] = InfoStart(sub)]
  /\ UNCHANGED <<tokens, now, issued>>

InfoRequestOk(body) ==
  /\ inv[Main].op = "infoResolver" /\ inv[Main].pc = "request"
  /\ inv' = [inv EXCEPT ![Main] = InfoResolved(inv[Main], body)]
  /\ UNCHANGED <<tokens, now, issued>>

InfoRequestFail(status) ==
  /\ inv[Main].op = "infoResolver" /\ inv[Main].pc = "request"
  /\ inv' = [inv EXCEPT ![Main] = InfoThrown(inv[Main], HttpError(status))]
  /\ UNCHANGED <<tokens, now, issued>>

InfoNext ==
  \/ \E sub \in Paths : CallInfoResolver(sub)
  \/ \E body \in UserBodies : InfoRequestOk(body)
  \/ \E status \in HttpStatuses : InfoRequestFail(status)
  \/ Return(Main)

InfoSpec == Init /\ [][InfoNext]_vars

\* C16: a resolver invocation whose lookup failed with status 404 rejects
\* with that very error; one that failed in any other way (another status,
\* no status, a malformed answer, or a sub that does not parse, before any
\* request is sent) rejects with the error 'RETRY'; an invocation resolves
\* only when nothing failed.
C16_NotFoundOrRetry ==
  LET f == inv[Main]
  IN (f.op = "infoResolver" /\ f.pc = "done") =>
       /\ f.failure = {} <=> "value" \in DOMAIN f.result
       /\ f.failure /= {} <=> IsError(f.result)
       /\ \A e \in f.failure :
            /\ e.status = 404 =>
                 /\ f.result.error = e
                 /\ Len(f.requests) = 1
            /\ e.status /= 404 =>
                 /\ f.result.error.message = "RETRY"
                 /\ f.result.error.status /= 404
       /\ SubMatch(f.args.sub) = {} =>
            /\ f.requests = <<>>
            /\ IsError(f.result) /\ f.result.error.message = "RETRY"

\* C16 witness: the lookup of a well-formed sub was answered 404 and the
\* resolver rejected with that error
C16_Witness ==
  /\ inv[Main].op = "infoResolver" /\ inv[Main].pc = "done"
  /\ Len(inv[Main].requests) = 1
  /\ inv[Main].failure = {HttpError(404)}
  /\ inv[Main].result = [error |-> HttpError(404)]

(***************************************************************************)
(* Properties of the token lifecycle (under Spec), continued.              *)
(***************************************************************************)
\* frame p raises the badge 'addGiteaAccount' in this step
BadgeRaised(p) == UserResolved(p) /\ Has(inv'[p].log, "addBadge")

\* C17: the badge is raised only on a first-time account addition: by
\* addAccount, after a successful acquisition, and for a sub that had no
\* stored token; never by a refreshToken invocation.
C17_BadgeOnlyFirstTime ==
  [][\A p \in Procs :
       BadgeRaised(p) =>
         /\ inv[p].op = "addAccount"
         /\ IsToken(inv'[p].result)
         /\ ~\E t \in tokens : t.sub = inv'[p].result.token.sub]_vars

\* C17 as amended: the badge is raised by addAccount only, once, as the
\* last thing a successful addAccount does after its token is stored
\* (whether or not the sub had a stored token before); no refreshToken
\* invocation and no invocation that failed has raised it.
C17_BadgeOnlyByAddAccount ==
  \A p \in Procs :
    LET f == inv[p]
    IN /\ Has(f.log, "addBadge") =>
            /\ f.op = "addAccount" /\ f.pc = "done"
            /\ IsToken(f.result) /\ f.result.token \in tokens
            /\ Count(f.log, "addBadge") = 1
            /\ f.log[Len(f.log)] = "addBadge"
            /\ f.log[Len(f.log) - 1] = "addGiteaToken"
       /\ (f.op = "addAccount" /\ f.pc = "done" /\ IsToken(f.result)) =>
            Has(f.log, "addBadge")

\* C17 witness: addAccount has raised the badge for an account that had a
\* stored token all along: a refreshToken invocation for the same sub is in
\* its silent exchange
C17_Witness ==
  /\ inv["p1"].op = "addAccount" /\ inv["p1"].pc = "done"
  /\ Has(inv["p1"].log, "addBadge")
  /\ inv["p2"].op = "refreshToken" /\ inv["p2"].silent
  /\ inv["p2"].args.sub = inv["p1"].result.token.sub

\* the interactive authorization frame p waits for is abandoned in this step
AuthorizeRejected(p) ==
  inv[p].pc = "authorize" /\ inv'[p] /= inv[p] /\ inv'[p].pc /= "exchange"

\* C18: when the OAuth2 popup helper rejects, the addAccount or refreshToken
\* invocation that waits for it rejects with that failure in the same step:
\* it does not stay pending, opens no modal, starts no other authorization
\* and leaves the store alone.
C18_AbandonedAuthorizationRejects ==
  [][\A p \in Procs :
       AuthorizeRejected(p) =>
         /\ inv[p].op \in {"addAccount", "refreshToken"}
         /\ inv'[p].pc = "done"
         /\ inv'[p].result = [error |-> ErrAuthorize]
         /\ inv'[p].log = inv[p].log \o <<ErrAuthorize>>
         /\ Count(inv'[p].log, "authorize") = 1
         /\ tokens' = tokens]_vars

\* C18 witness: the interactive fallback of a refreshToken invocation was
\* abandoned and the invocation has rejected
C18_Witness ==
  \E p \in Procs :
    /\ inv[p].op = "refreshToken" /\ inv[p].pc = "done"
    /\ inv[p].log = <<"exchange_refresh", ErrExchange, "catch_online", "modal",
                      "authorize", ErrAuthorize>>
    /\ inv[p].result = [error |-> ErrAuthorize]

\* the startOauth2 call of frame p throws in this step: at the
\* authorization, the token exchange, the user lookup or the sub check
StartOauth2Fails(p) ==
  /\ inv[p].pc \in {"authorize", "exchange", "user"}
  /\ inv'[p].pc \in {"done", "modal"}
  /\ \E i \in (Len(inv[p].log) + 1)..Len(inv'[p].log) :
       inv'[p].log[i] \in {ErrAuthorize, ErrExchange, ErrUser, ErrMismatch}

\* C19: the token store changes only in the step in which a startOauth2
\* call completes successfully, by the dispatch of the token that call
\* returns; a step in which a startOauth2 call fails, at whatever point,
\* leaves the store exactly as it was.
C19_StoreWrittenOnlyOnSuccess ==
  [][/\ tokens' /= tokens =>
          \E p \in Procs :
            /\ AcquisitionSucceeds(p)
            /\ IsToken(inv'[p].result)
            /\ tokens' = {x \in tokens : x.sub /= inv'[p].result.token.sub}
                           \cup {inv'[p].result.token}
            /\ ~StartOauth2Fails(p)
     /\ \A p \in Procs :
          StartOauth2Fails(p) =>
            /\ tokens' = tokens
            /\ ~Has(inv'[p].log, "addGiteaToken")]_vars

\* C19 witness: the interactive fallback of a refreshToken invocation failed
\* at the sub check, the last point of failure, and the token stored before
\* the invocation is still the stored one
C19_Witness ==
  \E p \in Procs :
    /\ inv[p].op = "refreshToken" /\ inv[p].pc = "done"
    /\ inv[p].result = [error |-> ErrMismatch]
    /\ Has(inv[p].log, "exchange_code")
    /\ tokens = {ExpiringToken(inv[p].args.sub)}

(***************************************************************************)
(* Properties of the authenticated operations (under OpSpec), continued.   *)
(***************************************************************************)
\* C20: a refreshToken call that finds no token stored under token.sub
\* rejects at once, having made no call to the network, the modal or the
\* OAuth2 popup and no store write; the authenticated operation that made
\* the call then rejects with that failure and issues no provider API call.
C20_NoStoredTokenRejects ==
  [][/\ (RefreshTokenCalled(Inner) /\ ~\E t \in tokens : t.sub = inv'[Inner].args.sub)
        => /\ inv'[Inner].pc = "done"
           /\ inv'[Inner].result = [error |-> ErrTypeError]
           /\ inv'[Inner].log = <<ErrTypeError>>
           /\ tokens' = tokens /\ issued' = issued
           /\ inv'[Outer].pc = "refresh" /\ inv'[Outer].requests = <<>>
     /\ (/\ inv[Outer].op \in Operations /\ inv[Outer].pc = "refresh"
         /\ inv[Inner].pc = "done" /\ inv[Inner].result = [error |-> ErrTypeError])
        => /\ inv'[Outer].pc = "done"
           /\ inv'[Outer].result = [error |-> ErrTypeError]
           /\ inv'[Outer].requests = <<>>
           /\ inv'[Inner] = Idle
           /\ tokens' = tokens /\ issued' = issued]_vars

\* C20 witness: an account that was refreshed earlier has been removed from
\* the store, and the next operation for it has rejected without a call
C20_Witness ==
  /\ inv[Outer].op \in Operations /\ inv[Outer].pc = "done"
  /\ inv[Outer].result = [error |-> ErrTypeError]
  /\ inv[Outer].requests = <<>>
  /\ tokens = {} /\ issued = 1

====
